---- MODULE Spec2Model ----
(***************************************************************************)
(* The lobby session engine of server.js: the registry of lobbies, the     *)
(* websocket gateway (connection, message and close handlers) and the room *)
(* state machine (preview, submit, fill, claim, unlock, evaluate, reset).  *)
(*                                                                         *)
(* Lobby objects live in `heap` and are referred to by their position; the *)
(* registry `lobbies` maps a room code to such a reference, and every      *)
(* connection keeps both the code (ws.meta.lobbyId) and the reference its  *)
(* handlers closed over (the `lobby` constant of the connection handler).  *)
(* Keys of lobby.players and property names of lobby.slots are written as  *)
(* the decimal text of the JavaScript number ("0".."4", "1.5").            *)
(* `events` holds what the last handler sent, `last` names that handler,   *)
(* and played[ref] records that lobby ref has had a guess resolved.        *)
(***************************************************************************)
EXTENDS Integers, Sequences, FiniteSets, TLC

VARIABLES lobbies, heap, conns, events, crashed, played, last

vars == <<lobbies, heap, conns, events, crashed, played, last>>

\* ---------------------------------------------------------------- bounds
\* Lobbies created and connections accepted in one run of the gateway model,
\* and in one run of the single-room model.
MaxLobbies == 2
MaxConns == 2
RoomLobbies == 1
SoloConns == 1
\* ... and in one run of the full-room model.
FullConns == 6

\* Values makeCode(6) may return for a lobby id, and makeCode(8) for a client id,
\* in the order in which they are first returned.
Codes == <<"K1", "K2">>
ClientIds == <<"P1", "P2">>
OneClientId == <<"P1">>

\* The answer list and the extra allowed words (the word-list files).
AnswerList == {<<"B", "A", "A", "A", "A">>}
AllowedExtra == {<<"A", "A", "A", "A", "A">>}

\* Payloads a client may send: letters, slot indices, colours.
RawLetters == {"A", " a", "1"}
RawPreviews == {"1"}
RawSlots == {"0", "1", "2", "3", "4", "5"}
RawClaims == {"0", "1"}
RawColors == {"green"}
\* ... in the one-player model
SoloLetters == {"A", "b", " a", "", "1"}
SoloPreviews == {"a", "B", "", "1"}
SoloClaims == {"5", "x"}
SoloColors == {" #60a5fa", "#F472B6", "green"}
\* ... in the registry model
RegistryLetters == {"b"}
RegistryFills == {"1", "2", "3", "4"}
\* ... in the full-room model
FullClaims == {"1.5"}
\* ... in the slot-argument model
SlotArgs == {"1.5", "2", "5", "-1", "x"}
SlotLetters == {"A"}
SlotPreviews == {"a"}
\* ... and the alphabet of answers and guesses in the scoring model
ScoreLetters == {"A", "B", "C"}

\* ---------------------------------------------------------------- values
Null == "null"
Undefined == "undefined"
AUTO == "AUTO"
OPEN == "OPEN"
CLOSED == "CLOSED"

AZ == {"A", "B", "C", "D", "E", "F", "G", "H", "I", "J", "K", "L", "M",
       "N", "O", "P", "Q", "R", "S", "T", "U", "V", "W", "X", "Y", "Z"}

COLOR_PALETTE == <<"#60A5FA", "#F472B6", "#F59E0B", "#A78BFA", "#14B8A6",
                   "#EF4444", "#22D3EE", "#FB7185", "#8B5CF6", "#F97316">>

maxRounds == 5

\* Array indices 0..4 and the property name of index i.
Indices == 0 .. 4
Key(i) == ToString(i)
IndexKeys == {Key(i) : i \in Indices}

\* Map.set / Map.delete, and assignment to a property of an array.
Range(f) == {f[x] : x \in DOMAIN f}
Put(f, k, v) == [x \in (DOMAIN f) \cup {k} |-> IF x = k THEN v ELSE f[x]]
Remove(f, k) == [x \in (DOMAIN f) \ {k} |-> f[x]]
EmptyMap == [x \in {} |-> Null]

\* ------------------------------------------------------------ conversions
\* String.prototype.toUpperCase and trim on the payloads of RawLetters and RawColors.
ToUpperCase(s) ==
    CASE s = "a" -> "A"
      [] s = "b" -> "B"
      [] s = " a" -> " A"
      [] s = " #60a5fa" -> " #60A5FA"
      [] s = "#60a5fa" -> "#60A5FA"
      [] s = "green" -> "GREEN"
      [] OTHER -> s

Trim(s) ==
    CASE s = " a" -> "a"
      [] s = " A" -> "A"
      [] s = " #60a5fa" -> "#60a5fa"
      [] s = " #60A5FA" -> "#60A5FA"
      [] OTHER -> s

\* /^[A-Z]$/.test(s)
IsLetter(s) == s \in AZ

\* Number(slotIndex): the value in tenths, or NaN.
NaN == [nan |-> TRUE, tenths |-> 0]
Num(t) == [nan |-> FALSE, tenths |-> t]
Number(raw) ==
    CASE raw = "0" -> Num(0)
      [] raw = "1" -> Num(10)
      [] raw = "2" -> Num(20)
      [] raw = "3" -> Num(30)
      [] raw = "4" -> Num(40)
      [] raw = "5" -> Num(50)
      [] raw = "1.5" -> Num(15)
      [] raw = "-1" -> Num(0 - 10)
      [] raw = Null -> Num(0)
      [] OTHER -> NaN

\* i >= 0 && i < 5
InRange(n) == ~n.nan /\ n.tenths >= 0 /\ n.tenths < 50

\* The key a number is in a Map, and the property name it indexes an array by.
NumKey(n) ==
    IF n.nan THEN "NaN"
    ELSE IF n.tenths % 10 = 0
    THEN ToString(n.tenths \div 10)
    ELSE ToString(n.tenths \div 10) \o "." \o ToString(n.tenths % 10)

\* answer[i] for a property name: a letter at an index, undefined elsewhere.
CharAt(word, k) ==
    IF \E i \in Indices : Key(i) = k /\ i < Len(word)
    THEN word[(CHOOSE i \in Indices : Key(i) = k) + 1]
    ELSE Undefined

\* ------------------------------------------------------------------ state
EmptySlot == [locked |-> FALSE, letter |-> "", byClientId |-> Null]
freshSlots == [k \in IndexKeys |-> EmptySlot]

ALLOWED == AnswerList \cup AllowedExtra

\* pickAnswer: any word of the answer list.
pickAnswer == AnswerList

\* ensureAnswer: the lobbies it may leave.
ensureAnswer(l) ==
    IF Len(l.answer) = 5 THEN {l} ELSE {[l EXCEPT !.answer = a] : a \in pickAnswer}

\* s.locked of lobby.slots[k]?.locked
LockedAt(l, k) == k \in DOMAIN l.slots /\ l.slots[k].locked

\* lobby.slots.filter(s => s.locked).length
lockedCount(l) == Cardinality({i \in Indices : l.slots[Key(i)].locked})

\* The open connections broadcast(lobby, ...) sends to.
Recipients(l, cs) ==
    {l.players[k] : k \in DOMAIN l.players} \cap {c \in DOMAIN cs : cs[c].readyState = OPEN}

\* rosterView(lobby): per board position, the occupant's colour or null.
rosterView(l, cs) ==
    [i \in Indices |-> IF Key(i) \in DOMAIN l.players THEN cs[l.players[Key(i)]].color ELSE Null]

Roster(l, cs) == [type |-> "roster", to |-> Recipients(l, cs), players |-> rosterView(l, cs)]

Error(c, m) == [type |-> "error", to |-> {c}, message |-> m]

\* A closed socket no lobby refers to any more: its meta is garbage.
Gone == [readyState |-> CLOSED, lobbyId |-> Null, lobby |-> 0, slot |-> Null,
         clientId |-> Null, color |-> Null]

\* Some lobby's players still holds the socket.
Referenced(h, ws) == \E r \in DOMAIN h : \E k \in DOMAIN h[r].players : h[r].players[k] = ws

\* The sockets once ws has closed: its meta is dropped unless a lobby holds it.
Sweep(h, cs, ws) == IF Referenced(h, ws) THEN cs ELSE [cs EXCEPT ![ws] = Gone]

\* A lobby object neither the registry nor an open socket's handlers refer to.
Dead == [id |-> Null, answer |-> <<>>, round |-> 0, maxRounds |-> maxRounds,
         players |-> EmptyMap, slots |-> freshSlots, history |-> <<>>, inProgress |-> FALSE]

Reachable(reg, cs, ref) ==
    \/ \E k \in DOMAIN reg : reg[k] = ref
    \/ \E c \in DOMAIN cs : cs[c].readyState = OPEN /\ cs[c].lobby = ref

\* The heap once the unreachable lobby objects are collected.
Collect(h, reg, cs) == [ref \in DOMAIN h |-> IF Reachable(reg, cs, ref) THEN h[ref] ELSE Dead]

\* makeCode: a value it returned before and that is still in use, or the first
\* of `names` not in use (which values are new is all that tells them apart).
makeCode(names, used) ==
    {names[i] : i \in {j \in DOMAIN names : \A m \in 1 .. (j - 1) : names[m] \in used}}

\* The lobby ids and the client ids the state holds.
UsedCodes == (DOMAIN lobbies) \cup {conns[c].lobbyId : c \in DOMAIN conns}
UsedClientIds ==
    {conns[c].clientId : c \in DOMAIN conns}
      \cup UNION {{heap[r].slots[k].byClientId : k \in DOMAIN heap[r].slots} : r \in DOMAIN heap}

TypeOK ==
    /\ crashed \in BOOLEAN
    /\ DOMAIN lobbies \subseteq Range(Codes)
    /\ \A k \in DOMAIN lobbies : lobbies[k] \in 1 .. Len(heap)
    /\ Len(heap) <= MaxLobbies
    /\ Len(conns) <= FullConns

Init ==
    /\ lobbies = EmptyMap
    /\ heap = <<>>
    /\ conns = <<>>
    /\ events = <<>>
    /\ crashed = FALSE
    /\ played = <<>>
    /\ last = "listen"

\* ------------------------------------------------------- registry: create
\* lobbies.set(id, lobby)
Register(reg, id, ref) == Put(reg, id, ref)

createLobby(max) ==
    /\ ~crashed
    /\ last' = "createLobby"
    /\ Len(heap) < max
    /\ \E id \in makeCode(Codes, UsedCodes), a \in pickAnswer :
         LET lobby == [id |-> id, answer |-> a, round |-> 0, maxRounds |-> maxRounds,
                       players |-> EmptyMap, slots |-> freshSlots, history |-> <<>>,
                       inProgress |-> TRUE]
         IN \E l \in ensureAnswer(lobby) :
              LET reg == Register(lobbies, id, Len(heap) + 1)
              IN /\ heap' = Collect(Append(heap, l), reg, conns)
                 /\ lobbies' = reg
    /\ played' = Append(played, FALSE)
    /\ events' = <<>>
    /\ UNCHANGED <<conns, crashed>>

\* ------------------------------------------------------ gateway: connect
\* pickAvailableColor: the first colour of the palette none of the players has.
pickAvailableColor(l, cs) ==
    LET used == {cs[l.players[k]].color : k \in DOMAIN l.players}
        free == {j \in 1 .. Len(COLOR_PALETTE) : COLOR_PALETTE[j] \notin used}
    IN IF free # {} THEN {COLOR_PALETTE[CHOOSE j \in free : \A m \in free : j <= m]}
       ELSE {COLOR_PALETTE[j] : j \in 1 .. Len(COLOR_PALETTE)}

\* The free slot a new connection is assigned: the lowest index without a player.
AssignedSlot(l) ==
    LET free == {i \in Indices : Key(i) \notin DOMAIN l.players}
    IN IF free = {} THEN Null ELSE Key(CHOOSE i \in free : \A j \in free : i <= j)

connection(max, clientIds, lobbyId) ==
    /\ ~crashed
    /\ last' = "connection"
    /\ Len(conns) < max
    /\ LET ws == Len(conns) + 1 IN
       IF lobbyId = Null \/ lobbyId \notin DOMAIN lobbies
       THEN /\ events' = <<Error(ws, "Lobby not found. Use Refresh Room Code to start one.")>>
            /\ UNCHANGED <<heap, conns>>
       ELSE LET ref == lobbies[lobbyId]
                lobby == heap[ref]
                assigned == AssignedSlot(lobby)
            IN IF assigned = Null
               THEN /\ events' = <<Error(ws, "Lobby full (5/5).")>>
                    /\ UNCHANGED <<heap, conns>>
               ELSE \E clientId \in makeCode(clientIds, UsedClientIds), color \in pickAvailableColor(lobby, conns) :
                      LET meta == [readyState |-> OPEN, lobbyId |-> lobbyId, lobby |-> ref,
                                   slot |-> assigned, clientId |-> clientId, color |-> color]
                          l2 == [lobby EXCEPT !.players = Put(@, assigned, ws)]
                          cs2 == Append(conns, meta)
                      IN /\ conns' = cs2
                         /\ heap' = [heap EXCEPT ![ref] = l2]
                         /\ events' = << [type |-> "join", to |-> {ws}, lobbyId |-> lobbyId,
                                          slot |-> assigned, round |-> l2.round,
                                          history |-> l2.history, slots |-> l2.slots],
                                         Roster(l2, cs2) >>
    /\ UNCHANGED <<lobbies, crashed, played>>

\* -------------------------------------------------------- gateway: close
\* if (l.players.size === 0 && l.history.length === 0) lobbies.delete(lobbyId)
ReapDeserted(reg, l, lobbyId) == IF DOMAIN l.players = {} THEN Remove(reg, lobbyId) ELSE reg
Reap(reg, l, lobbyId) ==
    IF DOMAIN l.players = {} /\ Len(l.history) = 0 THEN Remove(reg, lobbyId) ELSE reg

\* The slot a departing player leaves behind.
VacatedCleared(l, k) == Put(l.slots, k, EmptySlot)
Vacated(l, k) == IF LockedAt(l, k) THEN l.slots ELSE Put(l.slots, k, EmptySlot)

close(ws) ==
    /\ ~crashed
    /\ last' = "close"
    /\ ws \in DOMAIN conns
    /\ conns[ws].readyState = OPEN
    /\ LET lobbyId == conns[ws].lobbyId
           slot == conns[ws].slot
           cs2 == [conns EXCEPT ![ws].readyState = CLOSED]
       IN IF lobbyId \notin DOMAIN lobbies
          THEN LET h3 == Collect(heap, lobbies, cs2)
               IN /\ events' = <<>>
                  /\ heap' = h3
                  /\ conns' = Sweep(h3, cs2, ws)
                  /\ UNCHANGED lobbies
          ELSE LET ref == lobbies[lobbyId]
                   l == heap[ref]
                   mine == slot \in DOMAIN l.players /\ l.players[slot] = ws
                   l2 == IF mine
                         THEN [l EXCEPT !.players = Remove(@, slot),
                                        !.slots = Vacated(l, slot)]
                         ELSE l
                   reg == Reap(lobbies, l2, lobbyId)
                   h3 == Collect([heap EXCEPT ![ref] = l2], reg, cs2)
               IN /\ heap' = h3
                  /\ conns' = Sweep(h3, cs2, ws)
                  /\ events' = IF mine THEN <<Roster(l2, cs2)>> ELSE <<>>
                  /\ lobbies' = reg
    /\ UNCHANGED <<crashed, played>>

\* ------------------------------------------------------------ scoring
\* remaining[L] after the first pass of scoreGuess.
RemainingAll(g, a, L) == Cardinality({i \in 1 .. 5 : a[i] = L})
Remaining(g, a, L) == Cardinality({i \in 1 .. 5 : a[i] = L /\ g[i] # a[i]})

\* The second pass of scoreGuess from position i on; used[L] counts the
\* decrements of remaining[L] so far.
RECURSIVE SecondPass(_, _, _, _, _)
SecondPass(i, g, a, res, used) ==
    IF i > 5 THEN res
    ELSE IF res[i] = "correct" THEN SecondPass(i + 1, g, a, res, used)
    ELSE IF Remaining(g, a, g[i]) - used[g[i]] > 0
         THEN SecondPass(i + 1, g, a, [res EXCEPT ![i] = "present"],
                         [used EXCEPT ![g[i]] = @ + 1])
         ELSE SecondPass(i + 1, g, a, res, used)

scoreGuess(guess, answer) ==
    IF Len(answer) # 5 THEN [i \in 1 .. 5 |-> "absent"]
    ELSE LET first == [i \in 1 .. 5 |-> IF guess[i] = answer[i] THEN "correct" ELSE "absent"]
         IN SecondPass(1, guess, answer, first, [L \in {guess[i] : i \in 1 .. 5} |-> 0])

\* ---------------------------------------------------------- evaluation
\* The guess assembled from the five slots.
Guess(l) == [i \in 1 .. 5 |-> l.slots[Key(i - 1)].letter]

\* A wrong guess with rounds left: the round advances and the row is cleared.
NextRowKeepsSlots(l) == [l EXCEPT !.round = @ + 1]
NextRowSkips(l) == [l EXCEPT !.round = @ + 2, !.slots = freshSlots]
NextRow(l) == [l EXCEPT !.round = @ + 1, !.slots = freshSlots]

\* broadcast(lobby, { type: "waiting", waitingFor })
WaitingWithAnswer(l, to) ==
    [type |-> "waiting", to |-> to, answer |-> l.answer,
     waitingFor |-> {i \in Indices : ~l.slots[Key(i)].locked}]
Waiting(l, to) ==
    [type |-> "waiting", to |-> to, waitingFor |-> {i \in Indices : ~l.slots[Key(i)].locked}]

\* evaluateIfReady once the answer is ensured: the lobby it leaves and the
\* events it broadcasts to `to`.
Evaluate(l, to) ==
    IF lockedCount(l) < 5
    THEN [lobby |-> l, events |-> <<Waiting(l, to)>>]
    ELSE LET guess == Guess(l) IN
         IF \E i \in 1 .. 5 : ~IsLetter(guess[i])
         THEN LET l2 == [l EXCEPT !.slots = [k \in IndexKeys |->
                                               [l.slots[k] EXCEPT !.locked = FALSE]]]
              IN [lobby |-> l2,
                  events |-> << [type |-> "rowUnlocked", to |-> to, slots |-> l2.slots] >>]
         ELSE LET isValid == guess \in ALLOWED
                  colors == scoreGuess(guess, l.answer)
                  correct == guess = l.answer
                  l2 == [l EXCEPT !.history = Append(@, [guess |-> guess, colors |-> colors,
                                                         invalid |-> ~isValid])]
                  reveal == [type |-> "reveal", to |-> to, guess |-> guess, colors |-> colors,
                             correct |-> correct, round |-> l.round, invalid |-> ~isValid]
              IN IF correct
                 THEN [lobby |-> [l2 EXCEPT !.inProgress = FALSE],
                       events |-> << reveal, [type |-> "gameOver", to |-> to,
                                              reason |-> "solved", answer |-> l.answer] >>]
                 ELSE IF l2.round + 1 >= l2.maxRounds
                 THEN [lobby |-> [l2 EXCEPT !.round = @ + 1, !.inProgress = FALSE],
                       events |-> << reveal, [type |-> "gameOver", to |-> to,
                                              reason |-> "out_of_rounds",
                                              answer |-> l.answer] >>]
                 ELSE [lobby |-> NextRow(l2),
                       events |-> << reveal, [type |-> "newRow", to |-> to,
                                              round |-> l2.round + 1] >>]

evaluateIfReady(l, to) == {Evaluate(e, to) : e \in ensureAnswer(l)}

\* --------------------------------------------------- gateway: messages
\* The connection is open and the process alive: a message can arrive.
Receives(ws) == ~crashed /\ ws \in DOMAIN conns /\ conns[ws].readyState = OPEN

\* String(letterRaw ?? "") and String(letterRaw || "")
Str(raw) == IF raw = Null THEN "" ELSE raw

SlotUpdate(l, to, k) == [type |-> "slotUpdate", to |-> to, slot |-> k, slotState |-> l.slots[k]]

\* The handler returns having changed nothing and sent nothing.
Ignored == events' = <<>> /\ UNCHANGED <<lobbies, heap, conns, crashed, played>>

\* The handler replies to the sender alone and changes nothing.
Refused(ws, m) == events' = <<Error(ws, m)>> /\ UNCHANGED <<lobbies, heap, conns, crashed, played>>

\* The handler throws: nothing catches it and the process ends.
Throws == crashed' = TRUE /\ events' = <<>> /\ UNCHANGED <<lobbies, heap, conns, played>>

\* The lobby a handler leaves, and what it sent.
Leaves(ref, l2, evs) ==
    /\ heap' = [heap EXCEPT ![ref] = l2]
    /\ events' = evs
    /\ played' = [played EXCEPT ![ref] = @ \/ Len(l2.history) > Len(heap[ref].history)]
    /\ UNCHANGED <<lobbies, conns, crashed>>

\* The letter previewLetter displays for a payload: anything but A-Z clears.
PreviewOf(raw) ==
    LET up == ToUpperCase(Str(raw)) IN IF IsLetter(up) THEN up ELSE ""

previewLetter(ws, letterRaw) ==
    /\ Receives(ws)
    /\ last' = "previewLetter"
    /\ LET ref == conns[ws].lobby
           lobby == heap[ref]
           slot == conns[ws].slot
           l2 == [lobby EXCEPT !.slots = Put(@, slot, [locked |-> FALSE,
                                                       letter |-> PreviewOf(letterRaw),
                                                       byClientId |-> conns[ws].clientId])]
       IN IF ~lobby.inProgress THEN Ignored
          ELSE IF LockedAt(lobby, slot) THEN Ignored
          ELSE Leaves(ref, l2, <<SlotUpdate(l2, Recipients(l2, conns), slot)>>)

\* The letter submitLetter reads from a payload.
SubmitOf(raw) == ToUpperCase(Trim(Str(raw)))

\* The slot record a submit locks.
Locked(letter, clientId) == [locked |-> TRUE, letter |-> letter, byClientId |-> clientId]

\* if (slotState.locked) return
NeverLocked(slotState) == FALSE
AlreadyLocked(slotState) == slotState.locked

submitLetter(ws, letterRaw) ==
    /\ Receives(ws)
    /\ last' = "submitLetter"
    /\ LET ref == conns[ws].lobby
           slot == conns[ws].slot
           letter == SubmitOf(letterRaw)
       IN IF ~heap[ref].inProgress THEN Refused(ws, "Game over. Start a new round.")
          ELSE \E lobby \in ensureAnswer(heap[ref]) :
                 IF ~IsLetter(letter) THEN Refused(ws, "Enter one A-Z letter.")
                 ELSE IF slot \notin DOMAIN lobby.slots THEN Throws
                 ELSE IF AlreadyLocked(lobby.slots[slot]) THEN Ignored
                 ELSE LET l2 == [lobby EXCEPT !.slots = Put(@, slot,
                                                 Locked(letter, conns[ws].clientId))]
                          to == Recipients(l2, conns)
                      IN \E r \in evaluateIfReady(l2, to) :
                           Leaves(ref, r.lobby, <<SlotUpdate(l2, to, slot)>> \o r.events)

fillSlotWithAnswer(ws, slotIndex) ==
    /\ Receives(ws)
    /\ last' = "fillSlotWithAnswer"
    /\ LET ref == conns[ws].lobby
           n == Number(slotIndex)
           i == NumKey(n)
       IN IF ~heap[ref].inProgress THEN Ignored
          ELSE \E lobby \in ensureAnswer(heap[ref]) :
                 IF ~InRange(n) THEN Refused(ws, "Invalid slot index.")
                 ELSE IF i \in DOMAIN lobby.players
                 THEN Refused(ws, "That slot is occupied by a player.")
                 ELSE IF LockedAt(lobby, i) THEN Ignored
                 ELSE LET l2 == [lobby EXCEPT !.slots = Put(@, i,
                                                 Locked(CharAt(lobby.answer, i), AUTO))]
                          to == Recipients(l2, conns)
                      IN \E r \in evaluateIfReady(l2, to) :
                           Leaves(ref, r.lobby, <<SlotUpdate(l2, to, i)>> \o r.events)

\* claimSlot blocks a switch away from a locked tile of an unresolved row.
SwitchAllowed(l, cur) == FALSE
SwitchBlocked(l, cur) == cur # Null /\ LockedAt(l, cur) /\ lockedCount(l) < 5

claimSlot(ws, slotIndex) ==
    /\ Receives(ws)
    /\ last' = "claimSlot"
    /\ LET ref == conns[ws].lobby
           lobby == heap[ref]
           n == Number(slotIndex)
           target == NumKey(n)
           cur == conns[ws].slot
           mine == cur \in DOMAIN lobby.players /\ lobby.players[cur] = ws
           clear == cur \in DOMAIN lobby.slots /\ ~lobby.slots[cur].locked
           detached == [lobby EXCEPT !.players = IF mine THEN Remove(@, cur) ELSE @,
                                     !.slots = IF clear THEN Put(@, cur, EmptySlot) ELSE @]
           l2 == [detached EXCEPT !.players = Put(@, target, ws)]
           cs2 == [conns EXCEPT ![ws].slot = target]
       IN IF ~lobby.inProgress THEN Ignored
          ELSE IF ~InRange(n) THEN Refused(ws, "Invalid slot index.")
          ELSE IF target \in DOMAIN lobby.players
          THEN Refused(ws, "That slot is already taken.")
          ELSE IF SwitchBlocked(lobby, cur)
          THEN Refused(ws, "You've already locked this row; switch after reveal.")
          ELSE /\ heap' = [heap EXCEPT ![ref] = l2]
               /\ conns' = cs2
               /\ events' = (IF clear
                             THEN <<SlotUpdate(detached, Recipients(detached, conns), cur)>>
                             ELSE <<>>)
                            \o << [type |-> "slotClaimed", to |-> {ws}, slot |-> target],
                                  Roster(l2, cs2) >>
               /\ UNCHANGED <<lobbies, crashed, played>>

\* lobby.slots[slot] = { locked: false, letter: "", byClientId: null }
Unlocked(l, slot, clientId) == [l EXCEPT !.slots = Put(@, slot, EmptySlot)]

unlockMySlot(ws) ==
    /\ Receives(ws)
    /\ last' = "unlockMySlot"
    /\ LET ref == conns[ws].lobby
           lobby == heap[ref]
           slot == conns[ws].slot
           l2 == Unlocked(lobby, slot, conns[ws].clientId)
       IN IF ~lobby.inProgress THEN Ignored
          ELSE Leaves(ref, l2, <<SlotUpdate(l2, Recipients(l2, conns), slot)>>)

\* resetLobby: the lobbies it may leave (one per answer it may draw).
resetKeepsHistory(l) ==
    UNION {ensureAnswer([l EXCEPT !.answer = a, !.round = 0, !.inProgress = TRUE,
                                  !.slots = freshSlots]) : a \in pickAnswer}
resetKeepsRow(l) ==
    UNION {ensureAnswer([l EXCEPT !.answer = a, !.round = 0, !.inProgress = TRUE,
                                  !.history = <<>>]) : a \in pickAnswer}
resetLobby(l) ==
    UNION {ensureAnswer([l EXCEPT !.answer = a, !.round = 0, !.inProgress = TRUE,
                                  !.history = <<>>, !.slots = freshSlots]) : a \in pickAnswer}

\* if (!lobby.inProgress) resetLobby(lobby)
Always(l) == TRUE
Terminal(l) == ~l.inProgress

requestReset(ws) ==
    /\ Receives(ws)
    /\ last' = "requestReset"
    /\ LET ref == conns[ws].lobby
           lobby == heap[ref]
       IN IF ~Terminal(lobby) THEN Ignored
          ELSE \E l2 \in resetLobby(lobby) :
                 Leaves(ref, l2, << [type |-> "reset", to |-> Recipients(l2, conns),
                                     round |-> 0, slots |-> l2.slots] >>)

\* sanitizeColor: the palette colour a payload names, or null.
sanitizeColor(c) ==
    LET up == ToUpperCase(Trim(Str(c)))
    IN IF \E j \in 1 .. Len(COLOR_PALETTE) : COLOR_PALETTE[j] = up THEN up ELSE Null

setColor(ws, color) ==
    /\ Receives(ws)
    /\ last' = "setColor"
    /\ LET safe == sanitizeColor(color)
           cs2 == [conns EXCEPT ![ws].color = safe]
       IN IF safe # Null
          THEN /\ conns' = cs2
               /\ events' = <<Roster(heap[conns[ws].lobby], cs2)>>
               /\ UNCHANGED <<lobbies, heap, crashed, played>>
          ELSE Refused(ws, "Invalid color.")

\* Messages no branch of the handler takes up. JSON.parse throws on text that
\* is not JSON and the handler returns; it yields null for "null", and reading
\* msg.type of null throws; a number, a string, an object without a type or
\* with an unknown one match no branch.
RawMessages == {"not json", "null", "42", "{}", "{\"type\":\"bogus\"}"}

ParseFails(buf) == buf = "not json"
ParsesToNull(buf) == buf = "null"

otherMessage(ws, buf) ==
    /\ Receives(ws)
    /\ last' = "otherMessage"
    /\ IF ParseFails(buf) THEN Ignored
       ELSE IF ParsesToNull(buf) THEN Throws
       ELSE Ignored

\* ---------------------------------------------------------- specifications
\* One step of the server: a room is created, a socket connects or closes, or
\* a message of an open socket is handled.
Step(maxLobbies, maxConns, clientIds, previews, letters, fills, claims, colors) ==
    \/ createLobby(maxLobbies)
    \/ \E id \in Range(Codes) \cup {Null} : connection(maxConns, clientIds, id)
    \/ \E ws \in 1 .. maxConns : close(ws)
    \/ \E ws \in 1 .. maxConns, letter \in previews : previewLetter(ws, letter)
    \/ \E ws \in 1 .. maxConns, letter \in letters : submitLetter(ws, letter)
    \/ \E ws \in 1 .. maxConns, slot \in fills : fillSlotWithAnswer(ws, slot)
    \/ \E ws \in 1 .. maxConns, slot \in claims : claimSlot(ws, slot)
    \/ \E ws \in 1 .. maxConns : unlockMySlot(ws)
    \/ \E ws \in 1 .. maxConns : requestReset(ws)
    \/ \E ws \in 1 .. maxConns, color \in colors : setColor(ws, color)
    \/ \E ws \in 1 .. maxConns, buf \in RawMessages : otherMessage(ws, buf)

\* One room and two players.
Next == Step(RoomLobbies, MaxConns, ClientIds, RawPreviews, RawLetters, RawSlots, RawClaims,
             RawColors)

Spec == Init /\ [][Next]_vars

\* One room and one player, who may submit a right or a wrong letter.
NextSolo == Step(RoomLobbies, SoloConns, OneClientId, SoloPreviews, SoloLetters, RawSlots,
                 SoloClaims, SoloColors)

SpecSolo == Init /\ [][NextSolo]_vars

\* Two rooms, whose codes may collide, and two players who only submit the
\* first letter of the answer, fill the other slots and ask for a reset.
NextRegistry ==
    \/ createLobby(MaxLobbies)
    \/ \E id \in Range(Codes) : connection(MaxConns, OneClientId, id)
    \/ \E ws \in 1 .. MaxConns : close(ws)
    \/ \E ws \in 1 .. MaxConns, letter \in RegistryLetters : submitLetter(ws, letter)
    \/ \E ws \in 1 .. MaxConns, slot \in RegistryFills : fillSlotWithAnswer(ws, slot)
    \/ \E ws \in 1 .. MaxConns : requestReset(ws)

SpecRegistry == Init /\ [][NextRegistry]_vars

\* One room that six sockets try to join; they may claim a slot and leave.
NextFull ==
    \/ createLobby(RoomLobbies)
    \/ \E id \in Range(Codes) \cup {Null} : connection(FullConns, OneClientId, id)
    \/ \E ws \in 1 .. FullConns : close(ws)
    \/ \E ws \in 1 .. FullConns, slot \in FullClaims : claimSlot(ws, slot)

SpecFull == Init /\ [][NextFull]_vars

\* One room and two players, who send slot arguments of every sort.
NextSlots ==
    \/ createLobby(RoomLobbies)
    \/ \E id \in Range(Codes) : connection(MaxConns, ClientIds, id)
    \/ \E ws \in 1 .. MaxConns : close(ws)
    \/ \E ws \in 1 .. MaxConns, letter \in SlotPreviews : previewLetter(ws, letter)
    \/ \E ws \in 1 .. MaxConns, letter \in SlotLetters : submitLetter(ws, letter)
    \/ \E ws \in 1 .. MaxConns, slot \in SlotArgs : fillSlotWithAnswer(ws, slot)
    \/ \E ws \in 1 .. MaxConns, slot \in SlotArgs : claimSlot(ws, slot)
    \/ \E ws \in 1 .. MaxConns : unlockMySlot(ws)

SpecSlots == Init /\ [][NextSlots]_vars

\* Scoring: a room with any answer over ScoreLetters in which four players
\* have locked any letters in slots 1..4 and left, and the player of slot 0
\* submits the fifth letter, of this row and of the next.
ScoreWords == [1 .. 5 -> ScoreLetters]

InitScore ==
    /\ \E answer \in ScoreWords, row \in [1 .. 4 -> ScoreLetters] :
         heap = << [id |-> Codes[1], answer |-> answer, round |-> 0, maxRounds |-> maxRounds,
                    players |-> Put(EmptyMap, Key(0), 1),
                    slots |-> [k \in IndexKeys |->
                                 IF k = Key(0) THEN EmptySlot
                                 ELSE Locked(row[CHOOSE i \in 1 .. 4 : Key(i) = k],
                                             ClientIds[2])],
                    history |-> <<>>, inProgress |-> TRUE] >>
    /\ lobbies = Put(EmptyMap, Codes[1], 1)
    /\ conns = << [readyState |-> OPEN, lobbyId |-> Codes[1], lobby |-> 1, slot |-> Key(0),
                   clientId |-> ClientIds[1], color |-> COLOR_PALETTE[1]] >>
    /\ events = <<>>
    /\ crashed = FALSE
    /\ played = <<FALSE>>
    /\ last = "close"

NextScore == \E letter \in ScoreLetters : submitLetter(1, letter)

SpecScore == InitScore /\ [][NextScore]_vars

\* ------------------------------------------------------------------ claims
\* The step is a submitLetter or fillSlot of a socket of lobby ref that changed
\* the lobby by locking one of the five board positions.
LocksPosition(ref) ==
    /\ heap'[ref] # heap[ref]
    /\ \E ws \in DOMAIN conns :
         /\ conns[ws].lobby = ref
         /\ \/ /\ conns[ws].slot \in IndexKeys
               /\ \E letter \in RawLetters \cup SoloLetters : submitLetter(ws, letter)
            \/ \E slot \in RawSlots :
                 NumKey(Number(slot)) \in IndexKeys /\ fillSlotWithAnswer(ws, slot)

NeverAllLocked == \A ref \in DOMAIN heap : heap[ref].inProgress => lockedCount(heap[ref]) < 5

C1_Step ==
    \A ref \in DOMAIN heap :
      LET l == heap[ref]
          l2 == heap'[ref]
      IN /\ Len(l2.history) > Len(l.history) =>
              /\ Len(l2.history) = Len(l.history) + 1
              /\ lockedCount(l) = 4
              /\ LocksPosition(ref)
              /\ ~l2.inProgress \/ l2.round = l.round + 1
         /\ (lockedCount(l) = 4 /\ LocksPosition(ref)) =>
              Len(l2.history) = Len(l.history) + 1

\* C1: every set of five locks is evaluated exactly once. A step appends to a
\* lobby's history only if it is the submitLetter or fillSlot that locks the
\* fifth slot, it then appends exactly one record and ends the game or advances
\* the round by one; every step that locks the fifth slot does so; and between
\* steps no lobby in progress has all five slots locked.
C1_EvaluatedOnce == [][C1_Step /\ NeverAllLocked']_vars

\* Two sockets are in a room whose second guess has just been revealed.
C1_Witness ==
    \E ref \in DOMAIN heap :
      /\ Len(heap[ref].history) >= 2
      /\ \E i \in DOMAIN events : events[i].type = "reveal" /\ Cardinality(events[i].to) = 2

\* The letters a client may submit in any of the models.
Letters == RawLetters \cup SoloLetters \cup RegistryLetters

C2_Step ==
    \A ws \in DOMAIN conns, letter \in Letters :
      LET l == heap[conns[ws].lobby]
      IN (submitLetter(ws, letter) /\ LockedAt(l, conns[ws].slot)) =>
           /\ UNCHANGED <<lobbies, heap, conns, crashed, played>>
           /\ \A i \in DOMAIN events' : events'[i].type = "error" /\ events'[i].to = {ws}
           /\ (l.inProgress /\ IsLetter(SubmitOf(letter))) => events' = <<>>

\* C2: a submitLetter of a socket whose slot is already locked changes nothing:
\* the slot keeps its letter and owner token, the registry, every lobby and
\* every socket stay as they were, and nothing is broadcast: a letter A-Z sent
\* to a room in progress yields no event at all, and any other submit yields
\* only the error reply to the sender.
C2_LockedSubmitIsNoOp == [][C2_Step]_vars

\* The sole player locked "A", then submitted again and was ignored.
C2_Witness ==
    /\ last = "submitLetter"
    /\ events = <<>>
    /\ \E ws \in DOMAIN conns :
         /\ conns[ws].readyState = OPEN
         /\ heap[conns[ws].lobby].inProgress
         /\ LockedAt(heap[conns[ws].lobby], conns[ws].slot)
         /\ heap[conns[ws].lobby].slots[conns[ws].slot] = Locked("A", conns[ws].clientId)

\* The slot indices a client may send with claimSlot in any of the models.
Claims == RawClaims \cup SoloClaims

C3_Step ==
    \A ws \in DOMAIN conns, slot \in Claims :
      LET l == heap[conns[ws].lobby]
          cur == conns[ws].slot
          taken == NumKey(Number(slot)) \in DOMAIN l.players
          locked == LockedAt(l, cur) /\ lockedCount(l) < 5
      IN (claimSlot(ws, slot) /\ (taken \/ locked)) =>
           /\ UNCHANGED <<lobbies, heap, conns, crashed, played>>
           /\ \A i \in DOMAIN events' : events'[i].type = "error" /\ events'[i].to = {ws}

\* C3: a claimSlot whose target is a key of the players mapping, and a claimSlot
\* of a socket whose current slot is locked while fewer than five slots are
\* locked, fail: the players mapping, the socket's slot and every slot record
\* (indeed the whole state) are unchanged, and nothing but an error reply to
\* the sender is sent.
C3_ClaimFails == [][C3_Step]_vars

\* A player who has locked their tile claimed the other player's slot and was
\* told it is taken.
C3_Witness ==
    /\ last = "claimSlot"
    /\ \E ws \in DOMAIN conns :
         LET l == heap[conns[ws].lobby]
         IN /\ events = <<Error(ws, "That slot is already taken.")>>
            /\ LockedAt(l, conns[ws].slot)
            /\ lockedCount(l) < 5
            /\ \E k \in DOMAIN l.players : k # conns[ws].slot

C4_Step ==
    \A ws \in DOMAIN conns :
      LET ref == conns[ws].lobby
          slot == conns[ws].slot
          l == heap[ref]
          l2 == heap'[ref]
      IN close(ws) =>
           /\ \A k \in DOMAIN l2.players : l2.players[k] # ws
           /\ Reachable(lobbies', conns', ref) =>
                IF LockedAt(l, slot)
                THEN l2.slots[slot] = l.slots[slot]
                ELSE slot \in DOMAIN l2.slots /\ l2.slots[slot] = EmptySlot

\* C4: when a socket closes, the lobby it played in no longer has it in its
\* players mapping; and, if the lobby lives on, the socket's slot keeps its
\* record (locked flag, letter, owner token) when it was locked and is reset to
\* the empty record when it was not.
C4_DisconnectReleases == [][C4_Step]_vars

\* A closed socket is still bound to a slot of a lobby with an open socket.
C4_StaleBinding ==
    \E ref \in DOMAIN heap : \E k \in DOMAIN heap[ref].players :
      /\ conns[heap[ref].players[k]].readyState = CLOSED
      /\ \E c \in DOMAIN conns : conns[c].readyState = OPEN /\ conns[c].lobby = ref

\* Lobby ref has no socket in its players mapping.
Deserted(l) == DOMAIN l.players = {}

C5_Step ==
    /\ \A k \in DOMAIN lobbies :
         LET ref == lobbies[k]
         IN (Deserted(heap[ref]) /\ Len(heap[ref].history) > 0) =>
              k \in DOMAIN lobbies' /\ lobbies'[k] = ref
    /\ \A ws \in DOMAIN conns :
         LET ref == conns[ws].lobby
         IN (close(ws) /\ Deserted(heap'[ref]) /\ Len(heap[ref].history) = 0) =>
              \A k \in DOMAIN lobbies' : lobbies'[k] # ref

\* C5: no step takes a lobby without players and with a non-empty history out
\* of the registry (its code keeps naming it); and the close that leaves a lobby
\* without players while its history is empty takes it out of the registry.
C5_KeptWhilePlayed == [][C5_Step]_vars

\* A finished game nobody is connected to is in the registry.
C5_Witness ==
    \E k \in DOMAIN lobbies :
      /\ Deserted(heap[lobbies[k]])
      /\ Len(heap[lobbies[k]].history) > 0
      /\ last = "close"

C7_Step ==
    last' = "createLobby" =>
      /\ \A k \in DOMAIN lobbies :
           /\ k \in DOMAIN lobbies'
           /\ lobbies'[k] = lobbies[k]
           /\ heap'[lobbies[k]] = heap[lobbies[k]]
      /\ Cardinality(DOMAIN lobbies') = Cardinality(DOMAIN lobbies) + 1

\* C7: creating a lobby registers it under a code no registered lobby has:
\* every code of the registry keeps naming the lobby it named, that lobby is
\* unaltered, and the registry grows by one entry.
C7_FreshCode == [][C7_Step]_vars

\* A lobby with an open socket has lost its code to a lobby created later.
C7_Replaced ==
    \E c \in DOMAIN conns :
      /\ conns[c].readyState = OPEN
      /\ conns[c].lobbyId \in DOMAIN lobbies
      /\ lobbies[conns[c].lobbyId] # conns[c].lobby

C6_Step ==
    /\ \A ws \in DOMAIN conns :
         LET l == heap[conns[ws].lobby]
             l2 == heap'[conns[ws].lobby]
         IN requestReset(ws) =>
              IF l.inProgress
              THEN events' = <<>> /\ UNCHANGED <<lobbies, heap, conns, crashed, played>>
              ELSE /\ l2.inProgress /\ l2.round = 0 /\ l2.history = <<>>
                   /\ l2.slots = freshSlots /\ l2.players = l.players
    /\ (\E i \in DOMAIN events' : events'[i].type = "reset") =>
         \E ws \in DOMAIN conns : requestReset(ws) /\ ~heap[conns[ws].lobby].inProgress

\* C6: a requestReset of a socket whose lobby is in progress changes nothing
\* (answer, round, history, slots, inProgress, players and all the rest) and
\* sends nothing; a reset event is sent, and the lobby restarted, only by a
\* requestReset received while inProgress is false.
C6_ResetOnlyWhenOver == [][C6_Step]_vars

\* A reset was asked for in the middle of a game that has a guess in its
\* history and a locked tile, and was ignored.
C6_Witness ==
    /\ last = "requestReset"
    /\ events = <<>>
    /\ \E ws \in DOMAIN conns :
         LET l == heap[conns[ws].lobby]
         IN /\ conns[ws].readyState = OPEN
            /\ l.inProgress
            /\ Len(l.history) > 0
            /\ lockedCount(l) > 0

\* Lobby ref is the value of some code of registry reg.
Registered(reg, ref) == \E k \in DOMAIN reg : reg[k] = ref

C8_StepOriginal ==
    \A ref \in DOMAIN heap :
      (played[ref] /\ Registered(lobbies, ref)) => Registered(lobbies', ref)

\* C8 as stated: a registered lobby that has had a guess resolved stays
\* registered whatever happens next.
C8_PlayedNeverRemoved == [][C8_StepOriginal]_vars

C8_Step ==
    /\ \A k \in DOMAIN lobbies :
         k \notin DOMAIN lobbies' =>
           /\ last' = "close"
           /\ Len(heap[lobbies[k]].history) = 0
           /\ \A p \in DOMAIN heap[lobbies[k]].players :
                conns[heap[lobbies[k]].players[p]].readyState = OPEN
                  /\ conns'[heap[lobbies[k]].players[p]].readyState = CLOSED
    /\ last' = "close" =>
         \A k \in DOMAIN lobbies \cap DOMAIN lobbies' : lobbies'[k] = lobbies[k]

\* C8 amended: a code leaves the registry only in a close, and only if the
\* lobby it names has an empty history at that moment and no player but the
\* closing socket; a close never changes which lobby a remaining code names.
\* So a lobby is kept by disconnects while its history is non-empty, and a
\* played lobby whose history a reset has cleared is reaped like a new one.
C8_ReapedOnlyWithEmptyHistory == [][C8_Step]_vars

\* A lobby that had a guess resolved has been reset and then reaped by the
\* close of its last socket.
C8_Witness ==
    /\ last = "close"
    /\ \E ref \in DOMAIN heap : played[ref] /\ ~Registered(lobbies, ref)

\* The handler replied to ws with an error, sent nothing else and changed nothing.
ErrorOnly(ws) ==
    /\ Len(events') = 1
    /\ events'[1].type = "error"
    /\ events'[1].to = {ws}
    /\ UNCHANGED <<lobbies, heap, conns, crashed, played>>

\* The payloads a client may send in any of the models.
Previews == RawPreviews \cup SoloPreviews
Fills == RawSlots \cup RegistryFills
Colors == RawColors \cup SoloColors

\* A payload that is not one letter A-Z, in either case and whatever blanks
\* surround it.
NotALetter(raw) == ~IsLetter(ToUpperCase(Trim(Str(raw))))

C9_Step ==
    \A ws \in DOMAIN conns :
      LET l == heap[conns[ws].lobby]
          cur == conns[ws].slot
      IN /\ \A raw \in Letters :
              (submitLetter(ws, raw) /\ NotALetter(raw)) => ErrorOnly(ws)
         /\ \A raw \in Previews :
              (previewLetter(ws, raw) /\ NotALetter(raw) /\ Str(raw) # "") => ErrorOnly(ws)
         /\ \A raw \in Colors :
              (setColor(ws, raw) /\ sanitizeColor(raw) = Null) => ErrorOnly(ws)
         /\ \A raw \in Claims :
              ( /\ claimSlot(ws, raw)
                /\ \/ ~InRange(Number(raw))
                   \/ NumKey(Number(raw)) \in DOMAIN l.players
                   \/ LockedAt(l, cur) /\ lockedCount(l) < 5 ) => ErrorOnly(ws)
         /\ \A raw \in Fills :
              ( /\ fillSlotWithAnswer(ws, raw)
                /\ \/ ~InRange(Number(raw))
                   \/ NumKey(Number(raw)) \in DOMAIN l.players ) => ErrorOnly(ws)

\* C9 as stated: a submitLetter or previewLetter whose letter is not A-Z (the
\* empty preview apart), a setColor outside the palette, a claimSlot whose
\* target is out of range or taken or whose sender is locked in, and a fillSlot
\* whose target is out of range or occupied, each send one error to the
\* sender, nothing to anyone else, and change nothing.
C9_RejectedGetsError == [][C9_Step]_vars

\* A preview of "1" has been broadcast as a slot update that clears the tile
\* and stamps it with the sender's token.
C9_PreviewCoerced ==
    /\ last = "previewLetter"
    /\ \E ws \in DOMAIN conns :
         /\ Len(events) = 1
         /\ events[1].type = "slotUpdate"
         /\ events[1].slotState = [locked |-> FALSE, letter |-> "",
                                   byClientId |-> conns[ws].clientId]
         /\ Cardinality(events[1].to) = 2

C10_Step ==
    \A ws \in DOMAIN conns, buf \in RawMessages :
      otherMessage(ws, buf) =>
        /\ ~crashed'
        /\ events' = <<>>
        /\ UNCHANGED <<lobbies, heap, conns, played>>

\* C10 as stated: a message that is not JSON, whose JSON value is not an
\* object, or whose type is missing or unknown is dropped: the handler does not
\* throw, nothing is sent and nothing changes.
C10_Dropped == [][C10_Step]_vars

\* The message handler has thrown on the text null and the process is gone.
C10_Crashed == crashed /\ last = "otherMessage"

\* The slot indices a client may send with claimSlot in any of the models.
AnyClaims == Claims \cup FullClaims

\* The board positions of lobby l no socket is bound to.
Unbound(l) == {i \in Indices : Key(i) \notin DOMAIN l.players}

C11_Step ==
    \A id \in Range(Codes) \cup {Null} :
      connection(FullConns, OneClientId, id) =>
        LET ws == Len(conns) + 1
        IN IF id \in DOMAIN lobbies /\ Unbound(heap[lobbies[id]]) # {}
           THEN LET ref == lobbies[id]
                    l == heap[ref]
                    lowest == CHOOSE i \in Unbound(l) : \A j \in Unbound(l) : i <= j
                IN /\ Len(conns') = ws
                   /\ conns'[ws].slot = Key(lowest)
                   /\ conns'[ws].readyState = OPEN
                   /\ \A c \in DOMAIN conns : conns'[c] = conns[c]
                   /\ heap' = [heap EXCEPT ![ref].players = Put(l.players, Key(lowest), ws)]
           ELSE /\ Len(events') = 1
                /\ events'[1].type = "error"
                /\ events'[1].to = {ws}
                /\ UNCHANGED <<lobbies, heap, conns>>

\* No lobby has more than five sockets bound, and none under two keys.
C11_AtMostFive ==
    \A ref \in DOMAIN heap :
      LET players == heap[ref].players
      IN /\ Cardinality(DOMAIN players) <= 5
         /\ \A k1, k2 \in DOMAIN players : players[k1] = players[k2] => k1 = k2

\* C11: a connection to a registered lobby with an unbound board position is
\* bound to the lowest such position and changes no other binding; a
\* connection to a lobby with all five bound, or to a code that is not
\* registered, gets an error and changes nothing; and so no lobby ever has more
\* than five sockets bound, nor a socket bound to two slots.
C11_LowestFreeSlot == [][C11_Step /\ C11_AtMostFive']_vars

\* Six sockets are bound in one lobby.
C11_SixBound == \E ref \in DOMAIN heap : Cardinality(DOMAIN heap[ref].players) = 6

\* The positions of word w that hold letter L.
Holding(w, L) == {i \in 1 .. 5 : w[i] = L}

\* What scoreGuess owes for guess g against answer a.
Scored(g, a, colors) ==
    /\ DOMAIN colors = 1 .. 5
    /\ \A i \in 1 .. 5 :
         /\ colors[i] \in {"correct", "present", "absent"}
         /\ colors[i] = "correct" <=> g[i] = a[i]
         /\ LET L == g[i]
                missed == {j \in Holding(g, L) : g[j] # a[j]}
                left == {j \in Holding(a, L) : g[j] # a[j]}
            IN g[i] # a[i] =>
                 (colors[i] = "present" <=>
                    Cardinality({j \in missed : j < i}) < Cardinality(left))
    /\ \A L \in {g[i] : i \in 1 .. 5} :
         Cardinality({i \in Holding(g, L) : colors[i] # "absent"})
           <= Cardinality(Holding(a, L))

\* C12: every reveal carries the score of its guess against the lobby's
\* answer: five classifications among correct, present and absent; correct
\* exactly where guess and answer agree; of the other positions holding a
\* letter, the earliest are present, as many as the answer has occurrences of
\* the letter left unmatched; so no letter is marked correct or present more
\* often than the answer holds it.
C12_Scored ==
    \A n \in DOMAIN events :
      events[n].type = "reveal" =>
        \A ws \in events[n].to \cap DOMAIN conns :
          Scored(events[n].guess, heap[conns[ws].lobby].answer, events[n].colors)

\* A guess has been scored in which a letter is present at an earlier
\* position, absent at a later one and correct at a third.
C12_Witness ==
    \E n \in DOMAIN events :
      /\ events[n].type = "reveal"
      /\ \E i, j, k \in 1 .. 5 :
           /\ i < j
           /\ events[n].guess[i] = events[n].guess[j]
           /\ events[n].guess[k] = events[n].guess[i]
           /\ events[n].colors[i] = "present"
           /\ events[n].colors[j] = "absent"
           /\ events[n].colors[k] = "correct"

\* The sockets event e was sent to that joined a lobby (a socket turned away at
\* the door gets its error without ever having a lobby).
Joined(e) == e.to \cap DOMAIN conns

\* The slot records event e carries.
SlotRecords(e) ==
    IF "slotState" \in DOMAIN e THEN {e.slotState}
    ELSE IF "slots" \in DOMAIN e THEN Range(e.slots)
    ELSE {}

\* Event e carries the answer, or a letter the server took from it.
CarriesAnswer(e) ==
    "answer" \in DOMAIN e \/ \E r \in SlotRecords(e) : r.locked /\ r.byClientId = AUTO

C14_Step ==
    \A ws \in DOMAIN conns :
      LET ref == conns[ws].lobby
          l == heap[ref]
          l2 == heap'[ref]
      IN (requestReset(ws) /\ ~l.inProgress) =>
           /\ l2.round = 0
           /\ l2.history = <<>>
           /\ DOMAIN l2.slots = IndexKeys
           /\ \A k \in IndexKeys :
                ~l2.slots[k].locked /\ l2.slots[k].letter = "" /\ l2.slots[k].byClientId = Null
           /\ l2.inProgress
           /\ Len(l2.answer) = 5
           /\ \A i \in 1 .. 5 : l2.answer[i] \in AZ
           /\ l2.id = l.id
           /\ l2.players = l.players
           /\ l2.maxRounds = l.maxRounds
           /\ UNCHANGED <<lobbies, conns, crashed>>
           /\ \A other \in DOMAIN heap \ {ref} : heap'[other] = heap[other]

\* C14: a requestReset received by a lobby that is over sets round to 0,
\* empties the history, leaves exactly five slot records, each unlocked with
\* empty letter and null owner, sets inProgress and draws an answer of five
\* letters; the lobby's id and players mapping, the registry, every socket's
\* binding and every other lobby are unchanged.
C14_ResetFrame == [][C14_Step]_vars

\* Both players of a game that was played to its end have been sent the reset.
C14_Witness ==
    /\ last = "requestReset"
    /\ \E ws \in DOMAIN conns :
         /\ conns[ws].readyState = OPEN
         /\ played[conns[ws].lobby]
         /\ events = << [type |-> "reset", to |-> {1, 2}, round |-> 0, slots |-> freshSlots] >>
         /\ Cardinality(DOMAIN heap[conns[ws].lobby].players) = 2

\* The step is a requestReset of a socket of lobby ref.
ResetOf(ref) == \E ws \in DOMAIN conns : conns[ws].lobby = ref /\ requestReset(ws)

C15_Step ==
    \A ref \in DOMAIN heap :
      LET l == heap[ref]
          l2 == heap'[ref]
      IN (~l.inProgress /\ Reachable(lobbies', conns', ref) /\ ~ResetOf(ref)) =>
           /\ l2.answer = l.answer
           /\ l2.round = l.round
           /\ l2.history = l.history
           /\ ~l2.inProgress
           /\ \A k \in IndexKeys : l2.slots[k] = l.slots[k]

\* C15: while a lobby's inProgress is false, every step but a requestReset of
\* one of its sockets (a preview, submit, fill, claim, unlock, connection or
\* close among them) leaves its answer, round and history and the records of
\* its five slots as they were, and leaves it over.
C15_TerminalFrozen == [][C15_Step]_vars

\* A player of a finished game asked to unlock their tile and was ignored.
C15_Witness ==
    /\ last = "unlockMySlot"
    /\ events = <<>>
    /\ \E ws \in DOMAIN conns :
         /\ conns[ws].readyState = OPEN
         /\ ~heap[conns[ws].lobby].inProgress
         /\ LockedAt(heap[conns[ws].lobby], conns[ws].slot)

C16_Range ==
    \A ref \in DOMAIN heap :
      heap[ref].round \in Int /\ 0 <= heap[ref].round /\ heap[ref].round <= heap[ref].maxRounds

C16_Step ==
    \A ref \in DOMAIN heap :
      LET l == heap[ref]
          l2 == heap'[ref]
      IN Reachable(lobbies', conns', ref) =>
           \/ l2.round = l.round
           \/ l2.round = 0 /\ ResetOf(ref) /\ ~l.inProgress
           \/ /\ l2.round = l.round + 1
              /\ lockedCount(l) = 4
              /\ LocksPosition(ref)
              /\ Len(l2.history) = Len(l.history) + 1
              /\ LET guess == l2.history[Len(l2.history)].guess
                 IN /\ Len(guess) = 5
                    /\ \A i \in 1 .. 5 : guess[i] \in AZ
                    /\ guess # l.answer

Solved(l) == \E n \in DOMAIN l.history : l.history[n].guess = l.answer

FILLING(l) ==
    /\ l.inProgress
    /\ lockedCount(l) < 5
    /\ l.round < l.maxRounds
    /\ Len(l.history) = l.round
    /\ ~Solved(l)

WON(l) ==
    /\ ~l.inProgress
    /\ Len(l.history) > 0
    /\ l.history[Len(l.history)].guess = l.answer
    /\ Len(l.history) = l.round + 1
    /\ Len(l.history) <= l.maxRounds

EXHAUSTED(l) ==
    /\ ~l.inProgress
    /\ l.round = l.maxRounds
    /\ Len(l.history) = l.maxRounds
    /\ ~Solved(l)

C17_State ==
    \A ref \in DOMAIN heap :
      Reachable(lobbies, conns, ref) =>
        LET l == heap[ref]
        IN /\ FILLING(l) \/ WON(l) \/ EXHAUSTED(l)
           /\ ~(FILLING(l) /\ WON(l)) /\ ~(FILLING(l) /\ EXHAUSTED(l))
           /\ ~(WON(l) /\ EXHAUSTED(l))

C17_Step ==
    \A ref \in DOMAIN heap :
      LET l == heap[ref]
          l2 == heap'[ref]
      IN (Reachable(lobbies', conns', ref) /\ ~ResetOf(ref)) =>
           /\ Len(l2.history) >= Len(l.history)
           /\ \A n \in DOMAIN l.history : l2.history[n] = l.history[n]

C18_OwnerTokens ==
    \A ref \in DOMAIN heap : \A k \in DOMAIN heap[ref].slots :
      LET r == heap[ref].slots[k]
      IN IF r.locked
         THEN r.byClientId \in Range(ClientIds) \cup {AUTO}
         ELSE r.byClientId = Null

\* A preview has left an unlocked slot showing "A" and owned by the sender.
C18_PreviewOwned ==
    /\ last = "previewLetter"
    /\ \E ws \in DOMAIN conns :
         /\ conns[ws].readyState = OPEN
         /\ heap[conns[ws].lobby].slots[conns[ws].slot] =
              [locked |-> FALSE, letter |-> "A", byClientId |-> conns[ws].clientId]

\* The payload denotes one of the board positions 0..4.
BoardPosition(raw) == NumKey(Number(raw)) \in IndexKeys

C19_Step ==
    \A ws \in DOMAIN conns, raw \in SlotArgs :
      ((claimSlot(ws, raw) \/ fillSlotWithAnswer(ws, raw)) /\ ~BoardPosition(raw)) =>
        ErrorOnly(ws)

C19_State ==
    /\ ~crashed
    /\ \A ref \in DOMAIN heap :
         /\ DOMAIN heap[ref].players \subseteq IndexKeys
         /\ DOMAIN heap[ref].slots = IndexKeys
    /\ \A ws \in DOMAIN conns : conns[ws].readyState = OPEN => conns[ws].slot \in IndexKeys

\* C19 as stated: a claimSlot or fillSlot whose argument is not one of 0..4
\* gets an error and changes nothing; so every key of a players mapping and
\* every open socket's slot is one of 0..4, every slot table has exactly the
\* five records, and no handler throws.
C19_BoardPositionsOnly == [][C19_Step /\ C19_State']_vars

\* A socket that claimed slot 1.5 has submitted a letter: the handler read
\* .locked of a slot record that does not exist and threw.
C19_Thrown ==
    /\ crashed
    /\ last = "submitLetter"
    /\ \E ws \in DOMAIN conns : conns[ws].slot = "1.5"

\* The step is an unlockMySlot of a socket of lobby ref whose slot is k.
UnlockOf(ref, k) ==
    \E ws \in DOMAIN conns :
      conns[ws].lobby = ref /\ conns[ws].slot = k /\ unlockMySlot(ws)

\* ... sent by the owner of the slot's lock.
UnlockByOwnerOf(ref, k) ==
    \E ws \in DOMAIN conns :
      /\ conns[ws].lobby = ref
      /\ conns[ws].slot = k
      /\ conns[ws].clientId = heap[ref].slots[k].byClientId
      /\ unlockMySlot(ws)

\* The step resolves the row of lobby ref, or resets the lobby.
Resolves(ref) == (lockedCount(heap[ref]) = 4 /\ LocksPosition(ref)) \/ ResetOf(ref)

C20_StepOriginal ==
    \A ref \in DOMAIN heap : \A k \in IndexKeys :
      ( /\ Reachable(lobbies', conns', ref)
        /\ heap[ref].slots[k].locked
        /\ ~heap'[ref].slots[k].locked
        /\ ~Resolves(ref) ) => UnlockByOwnerOf(ref, k)

\* C20 as stated: while the row is unresolved a locked slot becomes unlocked
\* only by an unlockMySlot of the socket whose token is the slot's owner.
C20_UnlockedByOwnerOnly == [][C20_StepOriginal]_vars

C20_Step ==
    /\ \A ref \in DOMAIN heap : \A k \in IndexKeys :
         ( /\ Reachable(lobbies', conns', ref)
           /\ heap[ref].slots[k].locked
           /\ ~heap'[ref].slots[k].locked
           /\ ~Resolves(ref) ) => (heap[ref].inProgress /\ UnlockOf(ref, k))
    /\ \A ws \in DOMAIN conns :
         (unlockMySlot(ws) /\ heap[conns[ws].lobby].inProgress) =>
           /\ heap'[conns[ws].lobby].slots[conns[ws].slot] = EmptySlot
           /\ \E n \in DOMAIN events' :
                events'[n].type = "slotUpdate" /\ events'[n].slot = conns[ws].slot

\* What unlockMySlot does instead: while the row is unresolved a locked slot
\* becomes unlocked only by an unlockMySlot of the socket currently bound to
\* it, sent while the lobby is in progress; and such an unlockMySlot always
\* clears the slot and broadcasts the update, whoever the owner of the lock
\* is: the sender, another socket, one that has closed, or AUTO.
C20_UnlockedByOccupant == [][C20_Step]_vars

\* The second player has taken over a slot that the first one locked before
\* leaving, in a game in progress.
C20_Witness ==
    \E ws \in DOMAIN conns :
      LET l == heap[conns[ws].lobby]
      IN /\ conns[ws].readyState = OPEN
         /\ l.inProgress
         /\ LockedAt(l, conns[ws].slot)
         /\ l.slots[conns[ws].slot].byClientId \notin {conns[ws].clientId, AUTO}
         /\ \A c \in DOMAIN conns : c # ws => conns[c].readyState = CLOSED
====
